---- MODULE Spec2Model ----
(***************************************************************************)
(* A model of the tritonhttp server: the request parser (ReadLine,         *)
(* ReadRequest), the response builder (HandleGoodRequest,                  *)
(* HandleBadRequest), the serializer (ToString) and the per-connection     *)
(* loop (HandleConnection).                                                *)
(*                                                                         *)
(* Strings are sequences of lexemes: the separators " ", ":", "/", CRLF    *)
(* are lexemes of their own, every other lexeme is a word without a        *)
(* separator in it.  The string functions of the source (SplitN, Contains, *)
(* TrimSpace, HasSuffix, filepath.Clean) are computed on these sequences.  *)
(***************************************************************************)
EXTENDS Integers, Sequences, FiniteSets

(***************************************************************************)
(* Constants of the program.                                               *)
(***************************************************************************)
statusOK == 200
statusBadRequest == 400
statusNotFound == 404

PROTO == <<"HTTP/1.1">>
CONTENTTYPE == <<"text/html">>
CRLF == "\r\n"
SP == " "

statusText(code) ==
    CASE code = statusOK -> <<"OK">>
      [] code = statusNotFound -> <<"Not", SP, "Found">>
      [] code = statusBadRequest -> <<"Bad", SP, "Request">>
      [] OTHER -> <<>>

(***************************************************************************)
(* The string functions the source uses, on sequences of lexemes.          *)
(***************************************************************************)
Drop(s, n) == SubSeq(s, n + 1, Len(s))

Take(s, n) == SubSeq(s, 1, n)

HasPrefix(s, p) == Len(p) <= Len(s) /\ Take(s, Len(p)) = p

HasSuffix(s, p) == Len(p) <= Len(s) /\ Drop(s, Len(s) - Len(p)) = p

\* strings.Index: the first position at which sub occurs in s, 0 when none
\* (positions count from 1).
Index(s, sub) ==
    LET hits == {i \in 1..(Len(s) - Len(sub) + 1) : SubSeq(s, i, i + Len(sub) - 1) = sub}
    IN IF hits = {} THEN 0 ELSE CHOOSE i \in hits : \A j \in hits : i <= j

\* strings.Contains(s, sub)
Contains(s, sub) == Index(s, sub) # 0

\* strings.SplitN(s, sep, n) for n > 0 and a non-empty sep: at most n
\* pieces, the last one the unsplit remainder.
RECURSIVE SplitN(_, _, _)
SplitN(s, sep, n) ==
    LET i == Index(s, sep)
    IN IF n <= 1 \/ i = 0
       THEN <<s>>
       ELSE <<Take(s, i - 1)>> \o SplitN(Drop(s, i - 1 + Len(sep)), sep, n - 1)

RECURSIVE TrimLeft(_)
TrimLeft(s) == IF s # <<>> /\ Head(s) = SP THEN TrimLeft(Tail(s)) ELSE s

RECURSIVE TrimRight(_)
TrimRight(s) ==
    IF s # <<>> /\ s[Len(s)] = SP THEN TrimRight(Take(s, Len(s) - 1)) ELSE s

\* strings.TrimSpace
TrimSpace(s) == TrimRight(TrimLeft(s))

\* The lower-case form of the words whose letter case the inputs vary.
LowerWord(w) ==
    CASE w \in {"close", "Close", "CLOSE"} -> "close"
      [] w \in {"host", "Host", "HOST"} -> "host"
      [] w \in {"connection", "Connection", "CONNECTION"} -> "connection"
      [] OTHER -> w

\* textproto.CanonicalMIMEHeaderKey: first letter upper case, the rest
\* lower case; a key with a space in it is returned unchanged.
CanonicalHeaderKey(s) ==
    IF Contains(s, <<SP>>)
    THEN s
    ELSE [i \in 1..Len(s) |->
            CASE LowerWord(s[i]) = "host" -> "Host"
              [] LowerWord(s[i]) = "connection" -> "Connection"
              [] OTHER -> s[i]]

(***************************************************************************)
(* Request and Response values.                                            *)
(***************************************************************************)
\* &Request{} with req.Close = false (ReadRequest); isNil marks the nil
\* pointer ReadRequest returns next to most errors.
NewRequest ==
    [isNil |-> FALSE, Method |-> <<>>, URL |-> <<>>, Proto |-> <<>>,
     Host |-> <<>>, Close |-> FALSE]

NilRequest == [NewRequest EXCEPT !.isNil = TRUE]

\* The errors ReadRequest returns.  ErrEOF and ErrTimeout come from the
\* connection; the others are the parser's.
ErrNil == "nil"
ErrEOF == "EOF"
ErrTimeout == "i/o timeout"
ErrStartLine == "malformed start line"
ErrMethod == "invalid method"
ErrProto == "invalid Proto"
ErrURL == "invalid URL"
ErrNoColon == "InvalidHeader: Header does not contain colon"
ErrTwoValues == "InvalidHeader: Header does not contain two colon-separated values"
ErrKeySpace == "InvalidHeader: key in header has whitespace"
ErrValueSpace == "InvalidHeader: value in header has whitespace"
ErrNoHost == "HostNotPresentError"
\* req.URL[0] on an empty URL: a run-time panic, not an error value.
PanicIndex == "panic: index out of range"

ParseErrors ==
    {ErrStartLine, ErrMethod, ErrProto, ErrURL, ErrNoColon, ErrTwoValues,
     ErrKeySpace, ErrValueSpace, ErrNoHost}

(***************************************************************************)
(* The parser.                                                             *)
(***************************************************************************)
\* ReadLine on the bytes buf that the connection still delivers: the line
\* up to the first CRLF (stripped), or, when buf holds no CRLF, all of buf
\* together with the connection's error (ok = FALSE).
ReadLine(buf) ==
    LET i == Index(buf, <<CRLF>>)
    IN IF i = 0
       THEN [line |-> buf, ok |-> FALSE, rest |-> <<>>]
       ELSE [line |-> Take(buf, i - 1), ok |-> TRUE, rest |-> Drop(buf, i)]

parseRequestLine(line) ==
    LET fields == SplitN(line, <<SP>>, 3)
    IN IF Len(fields) # 3
       THEN [ok |-> FALSE, Method |-> <<>>, URL |-> <<>>, Proto |-> <<>>]
       ELSE [ok |-> TRUE, Method |-> fields[1], URL |-> fields[2], Proto |-> fields[3]]

validMethod(method) == method = <<"GET">>

validProto(proto) == proto = <<"HTTP/1.1">>

ReadResult(req, bytesRead, err, rest) ==
    [req |-> req, bytesRead |-> bytesRead, err |-> err, rest |-> rest]

\* The header loop of ReadRequest; connErr is the error the connection
\* gives once buf is used up.
RECURSIVE ReadHeaders(_, _, _, _)
ReadHeaders(buf, req, host, connErr) ==
    LET l == ReadLine(buf)
        fields == SplitN(l.line, <<":", SP>>, 2)
        key == CanonicalHeaderKey(TrimSpace(fields[1]))
        value == TrimSpace(fields[2])
    IN IF ~l.ok THEN ReadResult(NilRequest, TRUE, connErr, l.rest)
       ELSE IF l.line = <<>>
       THEN IF ~host
            THEN ReadResult(NilRequest, TRUE, ErrNoHost, l.rest)
            ELSE ReadResult(req, TRUE, ErrNil, l.rest)
       ELSE IF ~Contains(l.line, <<":">>) THEN ReadResult(req, TRUE, ErrNoColon, l.rest)
       ELSE IF Len(fields) # 2 THEN ReadResult(NilRequest, TRUE, ErrTwoValues, l.rest)
       ELSE IF Contains(key, <<SP>>) THEN ReadResult(req, TRUE, ErrKeySpace, l.rest)
       ELSE IF Contains(value, <<SP>>) THEN ReadResult(req, TRUE, ErrValueSpace, l.rest)
       ELSE IF key = <<"Host">>
       THEN ReadHeaders(l.rest,
                        IF value = <<"close">> THEN [req EXCEPT !.Close = TRUE] ELSE req,
                        host, connErr)
       ELSE IF key = <<"Connection">>
       THEN ReadHeaders(l.rest, [req EXCEPT !.Host = value], TRUE, connErr)
       ELSE ReadHeaders(l.rest, req, host, connErr)

\* ReadRequest from the start line it has read on.
ReadRequestLine(l, connErr) ==
    LET p == parseRequestLine(l.line)
        req == [NewRequest EXCEPT !.Method = p.Method, !.URL = p.URL, !.Proto = p.Proto]
    IN IF ~p.ok THEN ReadResult(NilRequest, TRUE, ErrStartLine, l.rest)
       ELSE IF ~validMethod(req.Method) THEN ReadResult(NilRequest, TRUE, ErrMethod, l.rest)
       ELSE IF ~validProto(req.Proto) THEN ReadResult(NilRequest, TRUE, ErrProto, l.rest)
       ELSE IF req.URL = <<>> THEN ReadResult(NilRequest, TRUE, PanicIndex, l.rest)
       ELSE IF req.URL[1] # "/" THEN ReadResult(NilRequest, TRUE, ErrURL, l.rest)
       ELSE ReadHeaders(l.rest, req, FALSE, connErr)

\* ReadRequest reporting bytes read also when the start line fails to arrive.
ReadRequestBytesAlways(buf, connErr) ==
    LET l == ReadLine(buf)
    IN IF ~l.ok
       THEN ReadResult(NilRequest, TRUE, connErr, l.rest)
       ELSE ReadRequestLine(l, connErr)

ReadRequest(buf, connErr) ==
    LET l == ReadLine(buf)
    IN IF ~l.ok
       THEN ReadResult(NilRequest, FALSE, connErr, l.rest)
       ELSE ReadRequestLine(l, connErr)

(***************************************************************************)
(* The server's configuration and the file system it serves from.          *)
(***************************************************************************)
\* Server.VirtualHosts: host name -> document root.
DocRootA == <<"/", "srv", "/", "a">>

VirtualHosts == [h \in {<<"a.com">>} |-> DocRootA]

\* filepath.Clean of a rooted path: empty and "." elements dropped, ".."
\* removes the element before it (none at the root).
RECURSIVE CleanElems(_, _)
CleanElems(elems, stack) ==
    IF elems = <<>> THEN stack
    ELSE LET e == Head(elems)
         IN CleanElems(Tail(elems),
                CASE e = <<>> \/ e = <<".">> -> stack
                  [] e = <<"..">> -> IF stack = <<>> THEN stack ELSE Take(stack, Len(stack) - 1)
                  [] OTHER -> Append(stack, e))

RECURSIVE JoinPath(_)
JoinPath(elems) ==
    IF elems = <<>> THEN <<>>
    ELSE <<"/">> \o Head(elems) \o JoinPath(Tail(elems))

Clean(path) ==
    LET elems == CleanElems(SplitN(path, <<"/">>, Len(path) + 1), <<>>)
    IN IF elems = <<>> THEN <<"/">> ELSE JoinPath(elems)

\* The files and directories on disk.  "locked" is a file that cannot be
\* read; nothing below "sealed" can be stat'd (permission denied).
ModTime == <<"Mon,", SP, "02", SP, "Jan", SP, "2006", SP, "15:04:05", SP, "GMT">>

Now == <<"Tue,", SP, "03", SP, "Jan", SP, "2006", SP, "15:04:05", SP, "GMT">>

IndexBody == <<"i1", "i2", "i3">>

TextBody == <<"t1", "t2">>

SecretBody == <<"s1">>

NotesBody == <<"n1", "n2">>

Dirs ==
    {<<"/">>, <<"/", "srv">>, DocRootA, DocRootA \o <<"/", "d">>,
     DocRootA \o <<"/", "sealed">>}

Files ==
    [p \in {DocRootA \o <<"/", "index.html">>, DocRootA \o <<"/", "f.txt">>,
            DocRootA \o <<"/", "notes">>,
            DocRootA \o <<"/", "locked">>, <<"/", "srv", "/", "secret">>} |->
        CASE p = DocRootA \o <<"/", "index.html">> -> IndexBody
          [] p = DocRootA \o <<"/", "f.txt">> -> TextBody
          [] p = DocRootA \o <<"/", "notes">> -> NotesBody
          [] p = <<"/", "srv", "/", "secret">> -> SecretBody
          [] OTHER -> <<"l1">>]

Unreadable == {DocRootA \o <<"/", "locked">>}

Sealed == DocRootA \o <<"/", "sealed">>

\* os.Stat: err is "nil", "not exist" or "permission denied"; info is
\* nil (isNil) next to an error.
Stat(path) ==
    IF HasPrefix(path, Sealed \o <<"/">>)
    THEN [err |-> "permission denied", isNil |-> TRUE, IsDir |-> FALSE, Size |-> 0]
    ELSE IF path \in Dirs
    THEN [err |-> "nil", isNil |-> FALSE, IsDir |-> TRUE, Size |-> 0]
    ELSE IF path \in DOMAIN Files
    THEN [err |-> "nil", isNil |-> FALSE, IsDir |-> FALSE, Size |-> Len(Files[path])]
    ELSE [err |-> "not exist", isNil |-> TRUE, IsDir |-> FALSE, Size |-> 0]

IsNotExist(err) == err = "not exist"

\* os.ReadFile
ReadFile(path) ==
    IF path \in DOMAIN Files /\ path \notin Unreadable
    THEN [ok |-> TRUE, body |-> Files[path]]
    ELSE [ok |-> FALSE, body |-> <<>>]

\* mime.TypeByExtension(filepath.Ext(path)): by the extension of the last
\* element; "" when the extension has no type.
TypeByExtension(path) ==
    LET base == path[Len(path)]
    IN CASE base = "index.html" -> <<"text/html;", SP, "charset=utf-8">>
         [] base = "f.txt" -> <<"text/plain;", SP, "charset=utf-8">>
         [] OTHER -> <<>>

(***************************************************************************)
(* The response builder.                                                   *)
(***************************************************************************)
\* &Response{}: every field at its zero value.
NewResponse ==
    [Proto |-> <<>>, StatusCode |-> 0, StatusText |-> <<>>, Date |-> <<>>,
     ContentLength |-> 0, LastModified |-> <<>>, ContentType |-> <<>>,
     Body |-> <<>>, Connection |-> FALSE]

\* Response.init
init(res) ==
    [res EXCEPT !.Date = Now, !.Proto = PROTO, !.ContentType = CONTENTTYPE,
                !.ContentLength = -1]

\* The path without the index.html of a target that ends in "/".
FileLocFinalNoIndex(req) == Clean(VirtualHosts[req.Host] \o req.URL)

\* The path HandleGoodRequest stats and reads for req (the host is known).
FileLocFinal(req) ==
    LET filelocation ==
            IF HasSuffix(req.URL, <<"/">>) THEN req.URL \o <<"index.html">> ELSE req.URL
    IN Clean(VirtualHosts[req.Host] \o filelocation)

\* info.IsDir() on the nil info os.Stat returns next to an error that is
\* not "not exist": a nil dereference, which ends the process.
GoodRequestPanics(req) ==
    /\ req.Host \in DOMAIN VirtualHosts
    /\ ~IsNotExist(Stat(FileLocFinal(req)).err)
    /\ Stat(FileLocFinal(req)).isNil

\* Response.HandleGoodRequest, for a request on which it does not panic,
\* when os.ReadFile returns rd.
Resolve(res, req, rd) ==
    LET r0 == init(res)
        r1 == IF req.Close THEN [r0 EXCEPT !.Connection = TRUE] ELSE r0
        ok == req.Host \in DOMAIN VirtualHosts
        r2 == [r1 EXCEPT !.StatusCode = statusNotFound,
                         !.StatusText = statusText(statusNotFound)]
        filelocfinal == FileLocFinal(req)
        info == Stat(filelocfinal)
        wrong == \/ Contains(<<"..", "/">>, filelocfinal)
                 \/ IsNotExist(info.err)
                 \/ info.IsDir
        r3 == IF IsNotExist(info.err) \/ info.IsDir
              THEN r2
              ELSE [r2 EXCEPT !.ContentLength = info.Size,
                              !.LastModified = ModTime,
                              !.Body = rd.body,
                              !.ContentType = TypeByExtension(filelocfinal)]
    IN IF ~ok
       THEN [r2 EXCEPT !.StatusCode = statusBadRequest,
                       !.StatusText = statusText(statusBadRequest)]
       ELSE IF ~IsNotExist(info.err) /\ ~info.IsDir /\ ~rd.ok
       THEN [r2 EXCEPT !.Connection = TRUE]
       ELSE IF ~wrong
       THEN [r3 EXCEPT !.StatusCode = statusOK, !.StatusText = statusText(statusOK)]
       ELSE r3

\* Response.HandleGoodRequest on a file system that nothing else changes.
HandleGoodRequest(res, req) ==
    Resolve(res, req,
            IF req.Host \in DOMAIN VirtualHosts
            THEN ReadFile(FileLocFinal(req))
            ELSE [ok |-> FALSE, body |-> <<>>])

\* HandleBadRequest without res.Connection = true.
HandleBadRequestKeepOpen(res) ==
    [res EXCEPT !.Date = Now, !.Proto = PROTO, !.ContentLength = -1,
                !.ContentType = CONTENTTYPE,
                !.StatusCode = statusBadRequest,
                !.StatusText = statusText(statusBadRequest)]

\* Response.HandleBadRequest
HandleBadRequest(res) ==
    [res EXCEPT !.Date = Now, !.Proto = PROTO, !.ContentLength = -1,
                !.ContentType = CONTENTTYPE,
                !.StatusCode = statusBadRequest,
                !.StatusText = statusText(statusBadRequest),
                !.Connection = TRUE]

(***************************************************************************)
(* The serializer.                                                         *)
(***************************************************************************)
Digit(d) ==
    CASE d = 0 -> "0" [] d = 1 -> "1" [] d = 2 -> "2" [] d = 3 -> "3" [] d = 4 -> "4"
      [] d = 5 -> "5" [] d = 6 -> "6" [] d = 7 -> "7" [] d = 8 -> "8" [] OTHER -> "9"

\* strconv.Itoa
RECURSIVE Itoa(_)
Itoa(n) ==
    IF n < 0 THEN <<"-">> \o Itoa(-n)
    ELSE IF n < 10 THEN <<Digit(n)>>
    ELSE Itoa(n \div 10) \o <<Digit(n % 10)>>

addInitialLine(res) ==
    res.Proto \o <<SP>> \o Itoa(res.StatusCode) \o <<SP>> \o res.StatusText \o <<CRLF>>

\* A serializer that puts the Date line first.
addHeadersDateFirst(res) ==
    <<"Date", ":", SP>> \o res.Date \o <<CRLF>>
    \o (IF res.Connection THEN <<"Connection", ":", SP, "close", CRLF>> ELSE <<>>)
    \o (IF res.ContentLength >= 0
        THEN <<"Content-Length", ":", SP>> \o Itoa(res.ContentLength) \o <<CRLF>>
             \o <<"Content-Type", ":", SP>> \o res.ContentType \o <<CRLF>>
             \o <<"Last-Modified", ":", SP>> \o res.LastModified \o <<CRLF>>
        ELSE <<>>)
    \o <<CRLF>>
    \o res.Body

addHeaders(res) ==
    (IF res.Connection THEN <<"Connection", ":", SP, "close", CRLF>> ELSE <<>>)
    \o (IF ~(res.ContentLength < 0)
        THEN <<"Content-Length", ":", SP>> \o Itoa(res.ContentLength) \o <<CRLF>>
             \o <<"Content-Type", ":", SP>> \o res.ContentType \o <<CRLF>>
        ELSE <<>>)
    \o <<"Date", ":", SP>> \o res.Date \o <<CRLF>>
    \o (IF res.ContentLength >= 0
        THEN <<"Last-Modified", ":", SP>> \o res.LastModified \o <<CRLF>>
        ELSE <<>>)
    \o <<CRLF>>
    \o res.Body

ToString(res) == addInitialLine(res) \o addHeaders(res) \o <<CRLF>> \o res.Body

(***************************************************************************)
(* What a peer sends.  A chunk is a piece of the byte stream of one        *)
(* connection: a whole request, or a part of one.                          *)
(***************************************************************************)
StartLine(method, target, proto) == method \o <<SP>> \o target \o <<SP>> \o proto \o <<CRLF>>

Get(target) == StartLine(<<"GET">>, target, <<"HTTP/1.1">>)

Hdr(name, value) == <<name, ":", SP>> \o value \o <<CRLF>>

End == <<CRLF>>

TIndex == <<"/", "index.html">>

TEscape == <<"/", "..", "/", "secret">>

TMissing == <<"/", "page">>

TLocked == <<"/", "locked">>

TSealed == <<"/", "sealed", "/", "x">>

\* Requests that are well formed by the grammar of the protocol.
WellFormed ==
    {Get(TIndex) \o Hdr("Host", <<"a.com">>) \o End,
     Get(TIndex) \o Hdr("Connection", <<"a.com">>) \o End,
     Get(TIndex) \o Hdr("Host", <<"a.com">>) \o Hdr("Connection", <<"close">>) \o End,
     Get(TIndex) \o Hdr("Host", <<"close">>) \o Hdr("Connection", <<"a.com">>) \o End,
     Get(TIndex) \o Hdr("Connection", <<"close">>) \o End,
     Get(<<"/">>) \o Hdr("host", <<"a.com">>) \o Hdr("Connection", <<"a.com">>) \o End,
     Get(TEscape) \o Hdr("Host", <<"a.com">>) \o End,
     Get(TEscape) \o Hdr("Host", <<"a.com">>) \o Hdr("Connection", <<"a.com">>) \o End,
     Get(TMissing) \o Hdr("Connection", <<"a.com">>) \o End,
     Get(TMissing) \o Hdr("Host", <<"unknown.com">>) \o End,
     Get(TMissing) \o Hdr("Host", <<"unknown.com">>) \o Hdr("Connection", <<"keep-alive">>) \o End,
     Get(TLocked) \o Hdr("Host", <<"a.com">>) \o Hdr("Connection", <<"a.com">>) \o End,
     Get(TSealed) \o Hdr("Host", <<"a.com">>) \o Hdr("Connection", <<"a.com">>) \o End}

\* Requests the grammar rejects.
Malformed ==
    {<<"GET", SP, "/", CRLF>> \o Hdr("Host", <<"a.com">>) \o End,
     StartLine(<<"PUT">>, TIndex, <<"HTTP/1.1">>) \o Hdr("Host", <<"a.com">>) \o End,
     StartLine(<<"GET">>, TIndex, <<"HTTP/1.0">>) \o Hdr("Host", <<"a.com">>) \o End,
     Get(<<"index.html">>) \o Hdr("Host", <<"a.com">>) \o End,
     Get(<<>>) \o Hdr("Host", <<"a.com">>) \o End,
     Get(TIndex) \o <<"Host", CRLF>> \o End,
     Get(TIndex) \o <<"Connection", ":", "a.com", CRLF>> \o End,
     Get(TIndex) \o Hdr("Connection", <<"a.com">>) \o Hdr("Accept", <<"a", SP, "b">>) \o End,
     Get(TIndex) \o <<"Con", SP, "nection", ":", SP, "a.com", CRLF>> \o End,
     Get(TIndex) \o End}

\* Parts of a request: the stream stops inside the start line, or inside
\* the headers; End completes the second.
Partial ==
    {<<"GET", SP>>,
     Get(TIndex) \o Hdr("Connection", <<"a.com">>),
     End}

\* Two requests sent back to back, the second before the first is answered.
FirstOfTwo == Get(TMissing) \o Hdr("Connection", <<"a.com">>) \o End

SecondOfTwo == Get(TIndex) \o Hdr("Connection", <<"a.com">>) \o End

BackToBack == {FirstOfTwo \o SecondOfTwo}

Chunks == WellFormed \cup Malformed \cup Partial \cup BackToBack

\* The number of chunks a peer sends on one connection.
MaxSends == 2

(***************************************************************************)
(* The state.                                                              *)
(***************************************************************************)
Conns == {"c1", "c2"}

VARIABLES
    pc,       \* pc[c]: where HandleConnection(c) stands: "idle" (not accepted),
              \* "arm" (at SetReadDeadline), "read" (in ReadRequest), "done"
    inbuf,    \* inbuf[c]: the bytes the peer has sent and the server has not read
    peer,     \* peer[c]: "open", or "closed" once the peer has ended its stream
    closed,   \* closed[c]: the server has called conn.Close()
    out,      \* out[c]: the calls of Response.Write, in order
    last,     \* last[c]: what the latest ReadRequest consumed and returned
    sent,     \* sent[c]: the number of chunks the peer has sent
    crashed   \* the process has ended by a panic

vars == <<pc, inbuf, peer, closed, out, last, sent, crashed>>

NoRead == [raw |-> <<>>, req |-> NilRequest, bytesRead |-> FALSE, err |-> "none", n |-> 0]

InitWith(live) ==
    /\ pc = [c \in Conns |-> IF c \in live THEN "arm" ELSE "idle"]
    /\ inbuf = [c \in Conns |-> <<>>]
    /\ peer = [c \in Conns |-> "open"]
    /\ closed = [c \in Conns |-> FALSE]
    /\ out = [c \in Conns |-> <<>>]
    /\ last = [c \in Conns |-> NoRead]
    /\ sent = [c \in Conns |-> 0]
    /\ crashed = FALSE

\* One connection has been accepted and handed to HandleConnection.
Init == InitWith({"c1"})

(***************************************************************************)
(* The peer.                                                               *)
(***************************************************************************)
PeerSend(c, chunk) ==
    /\ ~crashed
    /\ pc[c] \in {"arm", "read"}
    /\ peer[c] = "open"
    /\ ~closed[c]
    /\ sent[c] < MaxSends
    /\ inbuf' = [inbuf EXCEPT ![c] = @ \o chunk]
    /\ sent' = [sent EXCEPT ![c] = @ + 1]
    /\ UNCHANGED <<pc, peer, closed, out, last, crashed>>

PeerClose(c) ==
    /\ ~crashed
    /\ pc[c] \in {"arm", "read"}
    /\ peer[c] = "open"
    /\ peer' = [peer EXCEPT ![c] = "closed"]
    /\ UNCHANGED <<pc, inbuf, closed, out, last, sent, crashed>>

(***************************************************************************)
(* HandleConnection.  One pass of its loop is SetReadDeadline followed by  *)
(* one of the read actions, each of which runs the pass to its end: the    *)
(* branch taken on ReadRequest's result, the response built, Write, and    *)
(* the closes.                                                             *)
(***************************************************************************)
\* ReadRequest on what the peer has sent, the connection erring with
\* connErr when those bytes do not suffice.
Read(c, connErr) == ReadRequest(inbuf[c], connErr)

\* The bytes ReadRequest has taken from the connection when it returns r.
Consumed(c, r) == Take(inbuf[c], Len(inbuf[c]) - Len(r.rest))

\* ReadRequest needs more bytes than the peer has sent.
Starved(c) == Read(c, ErrEOF).err = ErrEOF

\* A reader made anew in every pass: what it had buffered is lost.
BufferedDropped(c, r) == <<>>

\* What br, the one bufio.Reader of the connection, still holds for the
\* next pass of the loop once ReadRequest has returned r.
Buffered(c, r) == r.rest

\* Response.Write closes the connection when the write or the flush fails
\* (wok = FALSE) and when res.Connection is set.
\* A Write that closes only when the response says close.
WriteClosesOnRequest(res, wok) == res.Connection

WriteCloses(res, wok) == ~wok \/ res.Connection

\* One Response value kept for the whole connection: a pass starts from
\* the response of the pass before it.
LoopResponseKept(c) == IF out[c] = <<>> THEN NewResponse ELSE out[c][Len(out[c])].res

\* res := &Response{} at the head of every pass of the loop.
LoopResponse(c) == NewResponse

\* n: the number of calls of Write on c before this pass of the loop.
LastRead(c, r) ==
    [raw |-> Consumed(c, r), req |-> r.req, bytesRead |-> r.bytesRead, err |-> r.err,
     n |-> Len(out[c])]

\* One call of Response.Write: the response, the request it answers (with
\* the bytes that request was read from) and whether the write and the
\* flush succeeded.
Written(c, r, res, wok) ==
    [raw |-> Consumed(c, r), req |-> r.req, err |-> r.err, res |-> res, ok |-> wok]

\* A SetReadDeadline that succeeds on a closed connection as well.
SetReadDeadlineAlways(c) ==
    /\ ~crashed
    /\ pc[c] = "arm"
    /\ pc' = [pc EXCEPT ![c] = "read"]
    /\ UNCHANGED <<inbuf, peer, closed, out, last, sent, crashed>>

\* conn.SetReadDeadline at the head of the loop: it fails on a connection
\* the handler has closed, and the handler closes it and breaks.
SetReadDeadline(c) ==
    /\ ~crashed
    /\ pc[c] = "arm"
    /\ pc' = [pc EXCEPT ![c] = IF closed[c] THEN "done" ELSE "read"]
    /\ UNCHANGED <<inbuf, peer, closed, out, last, sent, crashed>>

\* errors.Is(err, io.EOF): the peer has ended its stream before the
\* request was complete; the loop continues.
ReadEOF(c) ==
    /\ ~crashed
    /\ pc[c] = "read"
    /\ peer[c] = "closed"
    /\ Starved(c)
    /\ LET r == Read(c, ErrEOF)
       IN /\ last' = [last EXCEPT ![c] = LastRead(c, r)]
          /\ inbuf' = [inbuf EXCEPT ![c] = Buffered(c, r)]
    /\ pc' = [pc EXCEPT ![c] = "arm"]
    /\ UNCHANGED <<peer, closed, out, sent, crashed>>

\* The read deadline passes before the peer has sent a complete request.
ReadTimeout(c) ==
    /\ ~crashed
    /\ pc[c] = "read"
    /\ peer[c] = "open"
    /\ Starved(c)
    /\ LET r == Read(c, ErrTimeout)
       IN /\ last' = [last EXCEPT ![c] = LastRead(c, r)]
          /\ inbuf' = [inbuf EXCEPT ![c] = Buffered(c, r)]
          /\ IF ~r.bytesRead
             THEN out' = out
             ELSE \E wok \in BOOLEAN :
                     out' = [out EXCEPT ![c] =
                                Append(@, Written(c, r, HandleBadRequest(LoopResponse(c)), wok))]
    /\ closed' = [closed EXCEPT ![c] = TRUE]
    /\ pc' = [pc EXCEPT ![c] = "done"]
    /\ UNCHANGED <<peer, sent, crashed>>

\* ReadRequest returns a parser's error: the 400 is written, the
\* connection closed, and the loop goes on to its next pass.
BadRequest(c) ==
    /\ ~crashed
    /\ pc[c] = "read"
    /\ LET r == Read(c, ErrEOF)
       IN /\ r.err \in ParseErrors
          /\ last' = [last EXCEPT ![c] = LastRead(c, r)]
          /\ inbuf' = [inbuf EXCEPT ![c] = Buffered(c, r)]
          /\ \E wok \in BOOLEAN :
                out' = [out EXCEPT ![c] =
                           Append(@, Written(c, r, HandleBadRequest(LoopResponse(c)), wok))]
    /\ closed' = [closed EXCEPT ![c] = TRUE]
    /\ pc' = [pc EXCEPT ![c] = "arm"]
    /\ UNCHANGED <<peer, sent, crashed>>

\* The good-request branch from res.Write on: the response res to the
\* request read as r is written, and the handler returns when Write fails.
Respond(c, r, res) ==
    /\ last' = [last EXCEPT ![c] = LastRead(c, r)]
    /\ inbuf' = [inbuf EXCEPT ![c] = Buffered(c, r)]
    /\ \E wok \in BOOLEAN :
          /\ out' = [out EXCEPT ![c] = Append(@, Written(c, r, res, wok))]
          /\ closed' = [closed EXCEPT ![c] = WriteCloses(res, wok)]
          /\ pc' = [pc EXCEPT ![c] = IF wok THEN "arm" ELSE "done"]

\* ReadRequest returns a request: the response is built and written; Write
\* closes the connection when it fails or when res.Connection is set.
GoodRequest(c) ==
    /\ ~crashed
    /\ pc[c] = "read"
    /\ LET r == Read(c, ErrEOF)
           res == HandleGoodRequest(LoopResponse(c), r.req)
       IN /\ r.err = ErrNil
          /\ ~GoodRequestPanics(r.req)
          /\ Respond(c, r, res)
    /\ UNCHANGED <<peer, sent, crashed>>

\* A run-time panic in the handler's goroutine ends the process.
Panic(c) ==
    /\ ~crashed
    /\ pc[c] = "read"
    /\ LET r == Read(c, ErrEOF)
       IN /\ \/ r.err = PanicIndex
             \/ r.err = ErrNil /\ GoodRequestPanics(r.req)
          /\ last' = [last EXCEPT ![c] = LastRead(c, r)]
          /\ inbuf' = [inbuf EXCEPT ![c] = Buffered(c, r)]
    /\ crashed' = TRUE
    /\ UNCHANGED <<pc, peer, closed, out, sent>>

Next ==
    \E c \in Conns :
        \/ \E chunk \in Chunks : PeerSend(c, chunk)
        \/ PeerClose(c)
        \/ SetReadDeadline(c)
        \/ ReadEOF(c)
        \/ ReadTimeout(c)
        \/ BadRequest(c)
        \/ GoodRequest(c)
        \/ Panic(c)

Spec == Init /\ [][Next]_vars

(***************************************************************************)
(* The requests as the protocol reads them, for stating what a response    *)
(* owes to the bytes it answers: the header lines of a request are the     *)
(* lines after the start line up to the first empty line, a header's name  *)
(* is what precedes its first colon, names compare without regard to       *)
(* letter case.                                                            *)
(***************************************************************************)
Lower(s) == [i \in 1..Len(s) |-> LowerWord(s[i])]

RawLines(raw) == SplitN(raw, <<CRLF>>, Len(raw) + 1)

RawTarget(raw) == SplitN(RawLines(raw)[1], <<SP>>, 3)[2]

RawHeaderLines(raw) ==
    LET lines == RawLines(raw)
    IN {lines[i] : i \in {k \in 2..Len(lines) : \A j \in 2..k : lines[j] # <<>>}}

\* The values the request gives for the header called name (in lower case).
HeaderValues(raw, name) ==
    {TrimSpace(SplitN(l, <<":">>, 2)[2]) :
        l \in {h \in RawHeaderLines(raw) :
                 /\ Contains(h, <<":">>)
                 /\ Lower(TrimSpace(SplitN(h, <<":">>, 2)[1])) = <<name>>}}

OmitsHost(raw) == HeaderValues(raw, "host") = {}

CarriesClose(raw) == \E v \in HeaderValues(raw, "connection") : Lower(v) = <<"close">>

\* The file the target names under the document root of host.
TargetPath(host, target) ==
    Clean(VirtualHosts[host]
          \o (IF HasSuffix(target, <<"/">>) THEN target \o <<"index.html">> ELSE target))

\* path lies in the directory root.
Within(path, root) == path = root \/ HasPrefix(path, root \o <<"/">>)

\* The header lines of a serialized response hold the line "Connection: close".
SaysClose(res) ==
    Contains(ToString(res), <<CRLF, "Connection", ":", SP, "close", CRLF>>)

Entries(c) == {out[c][i] : i \in 1..Len(out[c])}

IsLastEntry(c, i) == i = Len(out[c])

(***************************************************************************)
(* C1.  Every GET request that names a known host and an existing,         *)
(* readable file under its document root is answered with status 200, a    *)
(* Content-Length equal to the file's byte count, and the file's bytes as  *)
(* the body.                                                               *)
(***************************************************************************)
C1_KnownHostFileServed ==
    \A c \in Conns : \A e \in Entries(c) :
        \A h \in HeaderValues(e.raw, "host") :
            (/\ e.raw \in WellFormed
             /\ h \in DOMAIN VirtualHosts
             /\ Within(TargetPath(h, RawTarget(e.raw)), VirtualHosts[h])
             /\ ReadFile(TargetPath(h, RawTarget(e.raw))).ok)
            => LET body == Files[TargetPath(h, RawTarget(e.raw))]
               IN /\ e.res.StatusCode = statusOK
                  /\ e.res.ContentLength = Len(body)
                  /\ e.res.Body = body

(***************************************************************************)
(* C2.  Every request whose cleaned path (document root + target) lies     *)
(* outside the matched document root is answered with 404 and no file      *)
(* content, whatever exists at that path.                                  *)
(***************************************************************************)
C2_EscapeIs404 ==
    \A c \in Conns : \A e \in Entries(c) :
        (/\ ~e.req.isNil
         /\ e.req.Host \in DOMAIN VirtualHosts
         /\ ~Within(FileLocFinal(e.req), VirtualHosts[e.req.Host]))
        => /\ e.res.StatusCode = statusNotFound
           /\ e.res.Body = <<>>

(***************************************************************************)
(* C3.  The response to a request that carries Connection: close includes  *)
(* Connection: close, and it is the last response on the connection, which *)
(* is closed once it is written.                                           *)
(***************************************************************************)
C3_CloseRequested ==
    \A c \in Conns : \A i \in 1..Len(out[c]) :
        CarriesClose(out[c][i].raw)
        => /\ SaysClose(out[c][i].res)
           /\ IsLastEntry(c, i)
           /\ closed[c]

(***************************************************************************)
(* C4.  A request without a Host header is answered with status 400 and    *)
(* the connection is closed.                                               *)
(***************************************************************************)
C4_MissingHostIs400 ==
    \A c \in Conns : \A i \in 1..Len(out[c]) :
        OmitsHost(out[c][i].raw)
        => /\ out[c][i].res.StatusCode = statusBadRequest
           /\ IsLastEntry(c, i)
           /\ closed[c]

(***************************************************************************)
(* C5.  A well-formed request whose Host value is not in the virtual-host  *)
(* table is answered with 400 and Connection: close, and the connection is *)
(* closed after that response, whether or not the request asked to close.  *)
(***************************************************************************)
C5_UnknownHostIs400Close ==
    \A c \in Conns : \A i \in 1..Len(out[c]) :
        (/\ out[c][i].raw \in WellFormed
         /\ \E h \in HeaderValues(out[c][i].raw, "host") : h \notin DOMAIN VirtualHosts)
        => /\ out[c][i].res.StatusCode = statusBadRequest
           /\ SaysClose(out[c][i].res)
           /\ IsLastEntry(c, i)
           /\ closed[c]

LastEntry(c) == out[c][Len(out[c])]

\* The latest pass of the loop on c has called Write once, for the bytes
\* it read.
AnsweredOnce(c) ==
    /\ Len(out[c]) = last[c].n + 1
    /\ LastEntry(c).raw = last[c].raw

\* The latest pass of the loop on c has not called Write.
Unanswered(c) == Len(out[c]) = last[c].n

C7_EofClosesSilently ==
    \A c \in Conns :
        (last[c].err = ErrEOF /\ last[c].raw = <<>>)
        => /\ Unanswered(c)
           /\ closed[c]
           /\ pc[c] = "done"

(***************************************************************************)
(* C8.  When the read deadline passes with nothing sent by the peer, the   *)
(* connection is closed, no response is written for that pass (none at all *)
(* when the peer never sent anything), and HandleConnection has returned.  *)
(***************************************************************************)
C8_IdleTimeoutClosesSilently ==
    \A c \in Conns :
        (last[c].err = ErrTimeout /\ last[c].raw = <<>>)
        => /\ Unanswered(c)
           /\ sent[c] = 0 => out[c] = <<>>
           /\ closed[c]
           /\ pc[c] = "done"

C8_Witness ==
    \E c \in Conns :
        /\ last[c].err = ErrTimeout
        /\ last[c].raw = <<>>
        /\ sent[c] = 0
        /\ pc[c] = "done"

(***************************************************************************)
(* C9.  When the read deadline passes after some bytes of a request have   *)
(* been consumed, in the start line or in the headers, the handler writes  *)
(* a 400 response before it closes the connection.                         *)
(***************************************************************************)
C9_PartialTimeoutIs400 ==
    \A c \in Conns :
        (last[c].err = ErrTimeout /\ last[c].raw # <<>>)
        => /\ AnsweredOnce(c)
           /\ LastEntry(c).res.StatusCode = statusBadRequest
           /\ closed[c]

(***************************************************************************)
(* C10.  When the peer's stream ends after some bytes of a request have    *)
(* been consumed, a 400 response with Connection: close is written and the *)
(* connection is closed.                                                   *)
(***************************************************************************)
C10_PartialEofIs400 ==
    \A c \in Conns :
        (last[c].err = ErrEOF /\ last[c].raw # <<>>)
        => /\ AnsweredOnce(c)
           /\ LastEntry(c).res.StatusCode = statusBadRequest
           /\ SaysClose(LastEntry(c).res)
           /\ closed[c]

(***************************************************************************)
(* C11.  The passes of one connection are strictly sequential and in       *)
(* order: a pass that takes a request from the stream writes the response  *)
(* to it before the handler reads again, every response is appended after  *)
(* the earlier ones, and it answers the oldest bytes not yet read, the     *)
(* bytes behind them staying in place for the next pass - also when two    *)
(* requests arrive back to back.                                           *)
(***************************************************************************)
PassEnds(c) == pc[c] = "read" /\ pc'[c] # "read"

Appended(c) ==
    /\ Len(out'[c]) = Len(out[c]) + 1
    /\ SubSeq(out'[c], 1, Len(out[c])) = out[c]

C11_Step(c) ==
    /\ out'[c] # out[c]
       => /\ Appended(c)
          /\ PassEnds(c)
          /\ LastEntry(c)'.raw # <<>>
          /\ LastEntry(c)'.raw \o inbuf'[c] = inbuf[c]
    /\ (PassEnds(c) /\ last'[c].err \in ParseErrors \cup {ErrNil})
       => Appended(c)

C11_SequentialInOrder == [][\A c \in Conns : C11_Step(c)]_vars

C11_Witness ==
    \E c \in Conns :
        /\ sent[c] = 1
        /\ Len(out[c]) = 2
        /\ out[c][1].raw = FirstOfTwo /\ out[c][1].ok
        /\ out[c][2].raw = SecondOfTwo /\ out[c][2].ok

(***************************************************************************)
(* C12.  After a 200 or 404 response to a valid request whose close flag   *)
(* is not set has been written successfully, the connection is open and    *)
(* the handler goes on to read the next request on it.                     *)
(***************************************************************************)
C12_KeptAlive ==
    \A c \in Conns :
        (/\ last[c].err = ErrNil
         /\ AnsweredOnce(c)
         /\ LastEntry(c).ok
         /\ ~last[c].req.Close
         /\ LastEntry(c).res.StatusCode \in {statusOK, statusNotFound})
        => /\ ~closed[c]
           /\ pc[c] \in {"arm", "read"}

(***************************************************************************)
(* A step writes at most one response, and the bytes of the request it     *)
(* answers leave the reader with it: no request is read or answered again. *)
(***************************************************************************)
AnsweredStep(c) ==
    /\ Len(out'[c]) <= Len(out[c]) + 1
    /\ Len(out'[c]) = Len(out[c]) + 1
       => /\ LastEntry(c)'.raw # <<>>
          /\ Len(inbuf'[c]) + Len(LastEntry(c)'.raw) <= Len(inbuf[c])

AnsweredAtMostOnce == [][\A c \in Conns : AnsweredStep(c)]_vars

(***************************************************************************)
(* C13.  A request is answered at most once, and a connection on which a   *)
(* request failed sends one error response and closes: no connection has   *)
(* more responses than requests taken from it, and a 400 response is the   *)
(* last response of its connection, which is closed after it.              *)
(***************************************************************************)
C13_OneErrorResponseThenClose ==
    \A c \in Conns : \A i \in 1..Len(out[c]) :
        /\ out[c][i].raw # <<>>
        /\ out[c][i].res.StatusCode = statusBadRequest
           => IsLastEntry(c, i) /\ closed[c]

(***************************************************************************)
(* The parts of a serialized response: the head is what precedes the first *)
(* blank line, the rest is what follows it.                                *)
(***************************************************************************)
BlankLine == <<CRLF, CRLF>>

HeadOf(wire) == Take(wire, Index(wire, BlankLine))

AfterBlankLine(wire) == Drop(wire, Index(wire, BlankLine) + 1)

\* The header lines of a serialized response, without the status line.
HeaderLinesOf(wire) ==
    LET lines == SplitN(HeadOf(wire), <<CRLF>>, Len(wire) + 1)
    IN SubSeq(lines, 2, Len(lines) - 1)

HeaderNamesOf(wire) ==
    LET ls == HeaderLinesOf(wire) IN [i \in 1..Len(ls) |-> ls[i][1]]

(***************************************************************************)
(* C14.  The bytes written for a response are the status line, the header  *)
(* lines, one blank line, and then the body exactly once: what follows the *)
(* first blank line is the body and nothing else, so nothing at all when   *)
(* the status is not 200.                                                  *)
(***************************************************************************)
C14_BodyOnceAfterBlankLine ==
    \A c \in Conns : \A e \in Entries(c) :
        LET wire == ToString(e.res)
        IN /\ Contains(wire, BlankLine)
           /\ HasPrefix(wire, addInitialLine(e.res))
           /\ AfterBlankLine(wire) = e.res.Body
           /\ e.res.StatusCode # statusOK => AfterBlankLine(wire) = <<>>

(***************************************************************************)
(* The byte order of header names: the characters that occur in them, in   *)
(* ascending byte value, and the spelling of each name.                    *)
(***************************************************************************)
Alphabet ==
    <<"-", "C", "D", "L", "M", "T", "a", "c", "d", "e", "f", "g", "h", "i",
      "n", "o", "p", "s", "t", "y">>

Rank(ch) == CHOOSE i \in 1..Len(Alphabet) : Alphabet[i] = ch

Spelling(name) ==
    CASE name = "Connection" -> <<"C", "o", "n", "n", "e", "c", "t", "i", "o", "n">>
      [] name = "Content-Length" ->
            <<"C", "o", "n", "t", "e", "n", "t", "-", "L", "e", "n", "g", "t", "h">>
      [] name = "Content-Type" ->
            <<"C", "o", "n", "t", "e", "n", "t", "-", "T", "y", "p", "e">>
      [] name = "Date" -> <<"D", "a", "t", "e">>
      [] name = "Last-Modified" ->
            <<"L", "a", "s", "t", "-", "M", "o", "d", "i", "f", "i", "e", "d">>

\* a < b for two spellings, compared byte by byte as Go compares strings
RECURSIVE LexLess(_, _)
LexLess(a, b) ==
    IF b = <<>> THEN FALSE
    ELSE IF a = <<>> THEN TRUE
    ELSE IF a[1] # b[1] THEN Rank(a[1]) < Rank(b[1])
    ELSE LexLess(Tail(a), Tail(b))

SortedNames(names) ==
    \A i \in 1..(Len(names) - 1) : LexLess(Spelling(names[i]), Spelling(names[i + 1]))

C16_StatusAndBody ==
    \A c \in Conns : \A e \in Entries(c) :
        /\ e.res.StatusCode \in {statusOK, statusBadRequest, statusNotFound}
        /\ e.res.StatusCode # statusOK
           => /\ e.res.Body = <<>>
              /\ HasSuffix(ToString(e.res), BlankLine)
              /\ ~HasSuffix(ToString(e.res), <<CRLF>> \o BlankLine)

(***************************************************************************)
(* C17.  Every 200 response carries Content-Length, Content-Type,          *)
(* Last-Modified and Date; every 404 carries Date and none of the other    *)
(* three; every 400 carries Connection: close.                             *)
(***************************************************************************)
HeaderSetOf(res) ==
    LET names == HeaderNamesOf(ToString(res)) IN {names[i] : i \in 1..Len(names)}

EntityHeaders == {"Content-Length", "Content-Type", "Last-Modified"}

C17_HeadersByStatus ==
    \A c \in Conns : \A e \in Entries(c) :
        /\ e.res.StatusCode = statusOK
           => EntityHeaders \cup {"Date"} \subseteq HeaderSetOf(e.res)
        /\ e.res.StatusCode = statusNotFound
           => /\ "Date" \in HeaderSetOf(e.res)
              /\ HeaderSetOf(e.res) \cap EntityHeaders = {}
        /\ e.res.StatusCode = statusBadRequest
           => SaysClose(e.res)

(***************************************************************************)
(* C18.  No request byte sequence and no filesystem outcome makes the      *)
(* handler fault: the process is never aborted.                            *)
(***************************************************************************)
C18_NoUncaughtFault == ~crashed

(***************************************************************************)
(* C19.  No response is written for a request whose file was stat'd        *)
(* successfully as a regular file and then could not be read.              *)
(***************************************************************************)
FileReadFailure(req) ==
    /\ ~req.isNil
    /\ req.Host \in DOMAIN VirtualHosts
    /\ Stat(FileLocFinal(req)).err = "nil"
    /\ ~Stat(FileLocFinal(req)).IsDir
    /\ ~ReadFile(FileLocFinal(req)).ok

C19_ReadFailureNoResponse ==
    \A c \in Conns : \A e \in Entries(c) :
        ~(e.err = ErrNil /\ FileReadFailure(e.req))

(***************************************************************************)
(* C20.  A response whose write or flush failed is the last thing the      *)
(* handler does on the connection: the connection is closed, the write is  *)
(* not repeated, the loop is left and no request is read after it.         *)
(***************************************************************************)
C20_WriteFailureCloses ==
    \A c \in Conns : \A i \in 1..Len(out[c]) :
        ~out[c][i].ok
        => /\ IsLastEntry(c, i)
           /\ closed[c]
           /\ pc[c] \in {"arm", "done"}
           /\ last[c].n + 1 = i
           /\ last[c].raw = out[c][i].raw

C20_Witness ==
    \E c \in Conns : \E i \in 1..Len(out[c]) :
        /\ ~out[c][i].ok
        /\ out[c][i].res.StatusCode = statusOK
        /\ ~out[c][i].res.Connection
        /\ pc[c] = "done"

(***************************************************************************)
(* Several connections.  ListenAndServe accepts connections for ever and   *)
(* starts one goroutine running HandleConnection for each; the peers send  *)
(* a request that is served, one the parser rejects, one for an unknown    *)
(* host, and one with an empty target.                                     *)
(***************************************************************************)
ServeChunks ==
    {Get(TIndex) \o Hdr("Connection", <<"a.com">>) \o End,
     StartLine(<<"PUT">>, TIndex, <<"HTTP/1.1">>) \o Hdr("Host", <<"a.com">>) \o End,
     Get(TMissing) \o Hdr("Host", <<"unknown.com">>) \o Hdr("Connection", <<"keep-alive">>) \o End,
     Get(<<>>) \o Hdr("Host", <<"a.com">>) \o End}

\* The number of requests a peer sends when several connections are served.
MaxServeSends == 1

ServeSend(c, chunk) == sent[c] < MaxServeSends /\ PeerSend(c, chunk)

\* No connection has been accepted yet.
ServeInit == InitWith({})

\* ln.Accept() followed by go s.HandleConnection(conn)
Accept(c) ==
    /\ ~crashed
    /\ pc[c] = "idle"
    /\ pc' = [pc EXCEPT ![c] = "arm"]
    /\ UNCHANGED <<inbuf, peer, closed, out, last, sent, crashed>>

ServeNext ==
    \E c \in Conns :
        \/ Accept(c)
        \/ \E chunk \in ServeChunks : ServeSend(c, chunk)
        \/ PeerClose(c)
        \/ SetReadDeadline(c)
        \/ ReadEOF(c)
        \/ ReadTimeout(c)
        \/ BadRequest(c)
        \/ GoodRequest(c)
        \/ Panic(c)

ServeSpec == ServeInit /\ [][ServeNext]_vars

\* The handler of c is in its loop.
Running(c) == pc[c] \in {"arm", "read"} /\ ~crashed

\* The step is one of the handler of d, or the accept of d.
Acts(d) == <<pc[d], closed[d], out[d], last[d]>>' # <<pc[d], closed[d], out[d], last[d]>>

\* The step closes nothing on c, writes nothing to it and leaves its
\* handler where it stands.
Untouched(c) ==
    /\ closed'[c] = closed[c]
    /\ out'[c] = out[c]
    /\ pc'[c] = pc[c]
    /\ last'[c] = last[c]
    /\ inbuf'[c] = inbuf[c]

\* What happens on one connection touches no other connection, as long as
\* the process lives.
IsolatedWhileAlive ==
    [][\A c, d \in Conns : (c # d /\ Acts(d) /\ ~crashed') => Untouched(c)]_vars

(***************************************************************************)
(* C21.  With several connections served at once, a step of the handler    *)
(* of one connection - a parse failure, a resolution failure, a write      *)
(* failure, a close - closes no other connection, writes nothing to it and *)
(* does not stop its handler: a handler that is in its loop stays there.   *)
(***************************************************************************)
C21_ConnectionsIsolated ==
    [][\A c, d \in Conns :
          (c # d /\ Acts(d)) => (Untouched(c) /\ (Running(c) => Running(c)'))]_vars

(***************************************************************************)
(* One request.  The connection delivers one complete request, drawn from  *)
(* every start line below combined with every block of header lines, and   *)
(* the handler runs on it.                                                 *)
(***************************************************************************)
TDir == <<"/", "d">>

TDirSlash == <<"/", "d", "/">>

TNotes == <<"/", "notes">>

RequestTargets ==
    {TIndex, <<"/">>, TDir, TDirSlash, TMissing, TNotes, <<"/", "f.txt">>, TLocked}

StartLines ==
    {Get(t) : t \in RequestTargets}
    \cup {<<"GET", SP, "/", CRLF>>,
          <<"GET", SP, "/", "index.html", SP, "HTTP/1.1", SP, "x", CRLF>>,
          <<SP>> \o Get(TIndex),
          StartLine(<<"PUT">>, TIndex, <<"HTTP/1.1">>),
          StartLine(<<"get">>, TIndex, <<"HTTP/1.1">>),
          StartLine(<<"GET">>, TIndex, <<"HTTP/1.0">>),
          Get(<<"index.html">>),
          Get(<<>>)}

HeaderBlocks ==
    {Hdr("Host", <<"a.com">>),
     Hdr("Connection", <<"a.com">>),
     Hdr("Host", <<"a.com">>) \o Hdr("Connection", <<"close">>),
     Hdr("Host", <<"a.com">>) \o Hdr("Connection", <<"Close">>),
     Hdr("Host", <<"a.com">>) \o Hdr("Connection", <<"keep-alive">>),
     Hdr("Host", <<"close">>) \o Hdr("Connection", <<"a.com">>),
     Hdr("Host", <<"CLOSE">>) \o Hdr("Connection", <<"a.com">>),
     <<"Connection", ":", "a.com", CRLF>>,
     <<"Connection", ":", SP, SP, "a.com", SP, CRLF>>,
     <<"Connection", SP, ":", SP, "a.com", CRLF>>,
     Hdr("connection", <<"a.com">>),
     Hdr("HOST", <<"close">>) \o Hdr("CONNECTION", <<"a.com">>),
     Hdr("Connection", <<"unknown.com">>) \o Hdr("Connection", <<"a.com">>),
     Hdr("Connection", <<"a.com">>) \o Hdr("Connection", <<"unknown.com">>),
     Hdr("Host", <<"close">>) \o Hdr("Host", <<"a.com">>) \o Hdr("Connection", <<"a.com">>),
     Hdr("Host", <<"unknown.com">>) \o Hdr("Host", <<"a.com">>)}

RequestInputs == {sl \o hb \o End : sl \in StartLines, hb \in HeaderBlocks}

\* The connection has been accepted and the request has arrived.
RequestInit ==
    /\ \E input \in RequestInputs :
          inbuf = [c \in Conns |-> IF c = "c1" THEN input ELSE <<>>]
    /\ pc = [c \in Conns |-> IF c = "c1" THEN "arm" ELSE "idle"]
    /\ peer = [c \in Conns |-> "open"]
    /\ closed = [c \in Conns |-> FALSE]
    /\ out = [c \in Conns |-> <<>>]
    /\ last = [c \in Conns |-> NoRead]
    /\ sent = [c \in Conns |-> IF c = "c1" THEN 1 ELSE 0]
    /\ crashed = FALSE

\* What os.ReadFile returns for a file that another process has replaced by
\* one of another length, emptied, or removed since os.Stat.
RacedReads ==
    {[ok |-> TRUE, body |-> b] : b \in {<<>>, <<"w1", "w2", "w3", "w4">>}}
    \cup {[ok |-> FALSE, body |-> <<>>]}

\* The good-request branch when the file changes between os.Stat and
\* os.ReadFile.
GoodRequestRaced(c) ==
    /\ ~crashed
    /\ pc[c] = "read"
    /\ LET r == Read(c, ErrEOF)
       IN /\ r.err = ErrNil
          /\ r.req.Host \in DOMAIN VirtualHosts
          /\ Stat(FileLocFinal(r.req)).err = "nil"
          /\ ~Stat(FileLocFinal(r.req)).IsDir
          /\ \E rd \in RacedReads \ {ReadFile(FileLocFinal(r.req))} :
                Respond(c, r, Resolve(LoopResponse(c), r.req, rd))
    /\ UNCHANGED <<peer, sent, crashed>>

RequestNext ==
    \E c \in Conns :
        \/ SetReadDeadline(c)
        \/ ReadTimeout(c)
        \/ BadRequest(c)
        \/ GoodRequest(c)
        \/ Panic(c)

RequestSpec == RequestInit /\ [][RequestNext]_vars

\* One request, on a file system that another process writes to while the
\* handler runs.
RaceNext ==
    \E c \in Conns :
        \/ SetReadDeadline(c)
        \/ ReadTimeout(c)
        \/ BadRequest(c)
        \/ GoodRequest(c)
        \/ GoodRequestRaced(c)
        \/ Panic(c)

RaceSpec == RequestInit /\ [][RaceNext]_vars

(***************************************************************************)
(* The start line as the protocol reads it: split on every single space.   *)
(***************************************************************************)
StartLineOf(raw) == RawLines(raw)[1]

StartLineFields(line) == SplitN(line, <<SP>>, Len(line) + 1)

StartLineValid(line) ==
    LET f == StartLineFields(line)
    IN /\ Len(f) = 3
       /\ f[1] = <<"GET">>
       /\ f[3] = <<"HTTP/1.1">>
       /\ f[2] # <<>>
       /\ f[2][1] = "/"

StartLineErrors == {ErrStartLine, ErrMethod, ErrProto, ErrURL}

\* The latest pass on c has read a complete start line.
ReadStartLine(c) == last[c].err # "none" /\ Contains(last[c].raw, <<CRLF>>)

(***************************************************************************)
(* C22.  A start line that does not split on single spaces into exactly    *)
(* three fields, or whose method is not GET, whose version is not HTTP/1.1 *)
(* or whose target does not start with "/", is a parse failure answered    *)
(* with 400; every other start line is accepted.                           *)
(***************************************************************************)
C22_StartLineGrammar ==
    \A c \in Conns :
        ReadStartLine(c)
        => IF StartLineValid(StartLineOf(last[c].raw))
           THEN last[c].err \notin StartLineErrors \cup {PanicIndex}
           ELSE /\ last[c].err \in StartLineErrors
                /\ AnsweredOnce(c)
                /\ LastEntry(c).res.StatusCode = statusBadRequest

(***************************************************************************)
(* The header lines as the protocol reads them, in the order sent: a line  *)
(* is split on its first colon and both parts are trimmed; names compare   *)
(* without regard to letter case; of several lines with one name the last  *)
(* counts.                                                                 *)
(***************************************************************************)
\* The request the latest pass on c has read from: the bytes ReadRequest
\* consumed and the bytes it left behind when it stopped at an error.
Arrived(c) == last[c].raw \o inbuf[c]

\* The latest pass on c has read from a whole request, behind a start line
\* that is valid.
ReadWhole(c) ==
    /\ ReadStartLine(c)
    /\ StartLineValid(StartLineOf(Arrived(c)))
    /\ Contains(Arrived(c), <<CRLF, CRLF>>)

HeaderSeq(raw) ==
    LET lines == RawLines(raw)
        stop == CHOOSE i \in 2..Len(lines) :
                    lines[i] = <<>> /\ \A j \in 2..(i - 1) : lines[j] # <<>>
    IN SubSeq(lines, 2, stop - 1)

HeaderName(l) == Lower(TrimSpace(SplitN(l, <<":">>, 2)[1]))

HeaderValue(l) == TrimSpace(SplitN(l, <<":">>, 2)[2])

\* The places of the header called name (in lower case) among the lines hs.
Occurrences(hs, name) ==
    {i \in 1..Len(hs) : Contains(hs[i], <<":">>) /\ HeaderName(hs[i]) = <<name>>}

HasHeader(raw, name) == Occurrences(HeaderSeq(raw), name) # {}

LastValue(raw, name) ==
    LET hs == HeaderSeq(raw)
        occ == Occurrences(hs, name)
    IN HeaderValue(hs[CHOOSE i \in occ : \A j \in occ : j <= i])

\* The line is written "Name: value", one space after the colon and none
\* elsewhere.
PlainHeader(l) == Len(l) = 4 /\ l[2] = ":" /\ l[3] = SP /\ l[1] # SP /\ l[4] # SP

AllPlain(raw) == \A i \in 1..Len(HeaderSeq(raw)) : PlainHeader(HeaderSeq(raw)[i])

(***************************************************************************)
(* C23.  The host of a successfully parsed request is a value of its Host  *)
(* header, and a request whose one header line is "Host: h" is parsed      *)
(* successfully, with host h and the close flag unset.                     *)
(***************************************************************************)
C23_HostFromHostHeader ==
    \A c \in Conns :
        ReadWhole(c)
        => /\ last[c].err = ErrNil
              => last[c].req.Host \in HeaderValues(Arrived(c), "host")
           /\ (/\ Len(HeaderSeq(Arrived(c))) = 1
               /\ AllPlain(Arrived(c))
               /\ HasHeader(Arrived(c), "host"))
              => /\ last[c].err = ErrNil
                 /\ last[c].req.Host = LastValue(Arrived(c), "host")
                 /\ ~last[c].req.Close

(***************************************************************************)
(* C24.  In a request with a Host line and one Connection line, the        *)
(* Connection line is never an error, and the close flag is set exactly    *)
(* when its value is "close" in any letter case.                           *)
(***************************************************************************)
C24_ConnectionClose ==
    \A c \in Conns :
        (/\ ReadWhole(c)
         /\ AllPlain(Arrived(c))
         /\ HasHeader(Arrived(c), "host")
         /\ Cardinality(Occurrences(HeaderSeq(Arrived(c)), "connection")) = 1)
        => /\ last[c].err = ErrNil
           /\ last[c].req.Close <=> Lower(LastValue(Arrived(c), "connection")) = <<"close">>

(***************************************************************************)
(* C25.  A header line is split on its first colon and both parts are      *)
(* trimmed: a request whose header lines are written with no space after   *)
(* the colon, or with extra spaces around name and value, is read exactly  *)
(* as the same request with every header line written "Name: value".       *)
(***************************************************************************)
RECURSIVE PlainHeaders(_)
PlainHeaders(hs) ==
    IF hs = <<>> THEN <<>>
    ELSE TrimSpace(SplitN(Head(hs), <<":">>, 2)[1]) \o <<":", SP>> \o HeaderValue(Head(hs))
         \o <<CRLF>> \o PlainHeaders(Tail(hs))

\* The request raw with every header line rewritten as "Name: value".
Plain(raw) == StartLineOf(raw) \o <<CRLF>> \o PlainHeaders(HeaderSeq(raw)) \o <<CRLF>>

\* Every header line has a colon, a name and a value, neither with a space
\* inside.
Splittable(raw) ==
    \A i \in 1..Len(HeaderSeq(raw)) :
        LET l == HeaderSeq(raw)[i]
        IN /\ Contains(l, <<":">>)
           /\ Len(TrimSpace(SplitN(l, <<":">>, 2)[1])) = 1
           /\ Len(HeaderValue(l)) = 1

C25_ColonAndTrim ==
    \A c \in Conns :
        (ReadWhole(c) /\ Splittable(Arrived(c)))
        => LET plain == ReadRequest(Plain(Arrived(c)), ErrEOF)
           IN /\ last[c].err = plain.err
              /\ last[c].req = plain.req

(***************************************************************************)
(* C26.  Header names are matched without regard to letter case and the    *)
(* last occurrence of a header wins: the host of a successfully parsed     *)
(* request is the value of its last Host line, and its close flag is set   *)
(* exactly when its last Connection line says close.                       *)
(***************************************************************************)
C26_LastOccurrenceWins ==
    \A c \in Conns :
        (ReadWhole(c) /\ Splittable(Arrived(c)) /\ last[c].err = ErrNil)
        => /\ HasHeader(Arrived(c), "host")
           /\ last[c].req.Host = LastValue(Arrived(c), "host")
           /\ last[c].req.Close
              <=> /\ HasHeader(Arrived(c), "connection")
                  /\ Lower(LastValue(Arrived(c), "connection")) = <<"close">>

(***************************************************************************)
(* C27.  For a parsed request that names a known host: a target ending in  *)
(* "/" is resolved to index.html under that path, which is served when it  *)
(* is a readable file; and when the resolved path does not exist or is a   *)
(* directory, also one named without a trailing slash, the answer is 404   *)
(* with an empty body.                                                     *)
(***************************************************************************)
IndexUnder(host, target) == Clean(VirtualHosts[host] \o target \o <<"index.html">>)

C28_ContentLengthIsBodyLength ==
    \A c \in Conns : \A e \in Entries(c) :
        e.res.StatusCode = statusOK
        => /\ e.res.ContentLength = Len(e.res.Body)
           /\ Contains(ToString(e.res),
                       <<CRLF, "Content-Length", ":", SP>> \o Itoa(Len(e.res.Body)) \o <<CRLF>>)

(***************************************************************************)
(* C29.  A 200 response for a file whose extension has no MIME type        *)
(* carries the fixed default Content-Type.                                 *)
(***************************************************************************)
C29_DefaultContentType ==
    \A c \in Conns : \A e \in Entries(c) :
        (/\ e.res.StatusCode = statusOK
         /\ TypeByExtension(FileLocFinal(e.req)) = <<>>)
        => e.res.ContentType = CONTENTTYPE

(***************************************************************************)
(* C30.  Request and response are made anew in every pass of the loop:     *)
(* the response written for a request is the one its own bytes determine   *)
(* given the host table and the files, whatever was read and answered      *)
(* before it on the connection, so two requests of the same bytes get the  *)
(* same response at any place of any connection.                           *)
(***************************************************************************)
\* The request read from the bytes raw alone and the response built for it
\* from an empty Response.
ReadAlone(raw, err) ==
    ReadRequest(raw, IF err \in {ErrEOF, ErrTimeout} THEN err ELSE ErrEOF)

ResponseAlone(raw, err) ==
    IF ReadAlone(raw, err).err = ErrNil
    THEN HandleGoodRequest(NewResponse, ReadAlone(raw, err).req)
    ELSE HandleBadRequest(NewResponse)

C30_FreshPerCycle ==
    \A c \in Conns : \A i \in 1..Len(out[c]) :
        /\ out[c][i].req = ReadAlone(out[c][i].raw, out[c][i].err).req
        /\ out[c][i].err = ReadAlone(out[c][i].raw, out[c][i].err).err
        /\ out[c][i].res = ResponseAlone(out[c][i].raw, out[c][i].err)
        /\ \A d \in Conns : \A j \in 1..Len(out[d]) :
              out[d][j].raw = out[c][i].raw => out[d][j].res = out[c][i].res

C30_Witness ==
    \E c \in Conns :
        /\ Len(out[c]) = 2
        /\ out[c][1].res.StatusCode = statusOK
        /\ out[c][1].res.Body # <<>>
        /\ out[c][2].res.StatusCode = statusNotFound
        /\ out[c][2].res.Body = <<>>
        /\ out[c][2].res.ContentLength < 0

(***************************************************************************)
(* C32.  Once the handler has closed a connection it stays closed, no      *)
(* response is written to it and no request is read from it, whatever      *)
(* bytes are still waiting: the pass that follows a close, as after the    *)
(* 400 path, ends at the failing SetReadDeadline.                          *)
(***************************************************************************)
C32_Step(c) ==
    closed[c]
    => /\ closed'[c]
       /\ out'[c] = out[c]
       /\ last'[c] = last[c]
       /\ inbuf'[c] = inbuf[c]
       /\ pc'[c] = pc[c] \/ (pc[c] = "arm" /\ pc'[c] = "done")

C32_NothingAfterClose == [][\A c \in Conns : C32_Step(c)]_vars

\* The handler has left its loop after a 400 with bytes of the peer still
\* waiting unread.
C32_Witness ==
    \E c \in Conns :
        /\ closed[c]
        /\ pc[c] = "done"
        /\ last[c].err \in ParseErrors
        /\ Len(out[c]) = last[c].n + 1
        /\ LastEntry(c).res.StatusCode = statusBadRequest
        /\ Contains(inbuf[c], <<CRLF, CRLF>>)

(***************************************************************************)
(* Progress.  The goroutine of a connection is scheduled again and again,  *)
(* and a read on a stream that the peer has ended and that holds nothing   *)
(* unread returns at once: arming the deadline, and that return of         *)
(* ReadRequest with io.EOF, are taken when they stay possible.  (The other *)
(* steps of the handler are as certain; these two are the ones left to a   *)
(* handler whose peer is gone.)                                            *)
(***************************************************************************)
\* The peer of c has ended its stream and the handler has read all of it.
PeerGone(c) == peer[c] = "closed" /\ inbuf[c] = <<>>

\* ReadRequest returns io.EOF on the drained stream.
ReadEOFAtEnd(c) == PeerGone(c) /\ ReadEOF(c)

LiveSpec ==
    /\ Init
    /\ [][Next]_vars
    /\ \A c \in Conns : WF_vars(SetReadDeadline(c)) /\ WF_vars(ReadEOFAtEnd(c))

\* The handler of c has begun and not ended.
InLoop(c) == pc[c] \in {"arm", "read"}

(***************************************************************************)
(* C31.  A handler that has left its loop has closed its connection, and   *)
(* no handler loops for ever on a connection whose peer has gone away: it  *)
(* leaves its loop (unless the process ends first).                        *)
(***************************************************************************)
C31_EndsWithConnectionClosed ==
    /\ [](\A c \in Conns : pc[c] = "done" => closed[c])
    /\ \A c \in Conns : (PeerGone(c) /\ InLoop(c)) ~> (pc[c] = "done" \/ crashed)

====
